---- MODULE Spec2Model ----
(***************************************************************************)
(* Threaded binary search tree (trees/bst.hpp) over a fixed-capacity slot  *)
(* arena (memory/allocator.hpp).                                           *)
(*                                                                         *)
(* Pointers are integers: 0 is the null pointer, -t is the address of the  *)
(* sentinel (head) of tree t, and a positive number is an arena slot.      *)
(***************************************************************************)
EXTENDS Integers, Sequences, FiniteSets, TLC

\* ---------------------------------------------------------------- bounds
MaxKey == 3   \* keys are 1..MaxKey
Cap1 == 6     \* largest buffer of arena 1, in slots
Cap2 == 1     \* largest buffer of arena 2, in slots
GenCap == 2   \* largest buffer of arena 1 when every operation is free to interleave
GenKey == 2   \* keys inserted when every operation is free to interleave
MaxAddr == 9  \* buffers start at addresses 1..MaxAddr
MaxLen == 26  \* buffers are 0..MaxLen bytes long

Keys == 1..MaxKey
Trees == {1, 2}   \* two tree objects: enough for a copy's source and destination
Arenas == {1, 2}
Slots == 1..(Cap1 + Cap2)
SlotBase(a) == IF a = 1 THEN 0 ELSE Cap1
ArenaOf(s) == IF s <= Cap1 THEN 1 ELSE 2

null == 0
NoKey == 0
NoPool == 0
head(t) == 0 - t
Heads == {head(t) : t \in Trees}
Ptrs == Heads \cup Slots

\* ------------------------------------------------------------ alignment
WordSize == 8   \* sizeof (char*)

is_aligned(a, b) == a % b = 0
next_aligned(a, b) == ((a + b - 1) \div b) * b

\* ---------------------------------------------------------- tagged node
lbit == "lbit"
rbit == "rbit"

\* A slot or sentinel whose bytes are indeterminate (free, or not constructed).
Blank == [key |-> NoKey, llink |-> null, rlink |-> null, tag |-> {}]

has_null_llink(tag) == lbit \in tag
has_null_rlink(tag) == rbit \in tag

\* head.llink = &head; head.rlink = &head; head.tag = detail::lbit
EmptyHead(t) == [key |-> NoKey, llink |-> head(t), rlink |-> head(t), tag |-> {lbit}]

VARIABLES
  node,       \* memory: Ptrs -> node record (sentinels and arena slots)
  pool,       \* pool[t]: the arena tree t is bound to (NoPool: not constructed)
  free,       \* free[a]: the free chain of arena a, head first
  slot_count, \* slot_count[a]: the number of slots the buffer of arena a holds
  ret,        \* result of the last insert: [cursor, inserted]
  call,       \* the last operation, its arguments, whether an allocation failed in it
              \* and whether its clear read a node it had already deallocated; for a
              \* copy, the arena the destination was bound to and the number of nodes
              \* it held when the copy began
  truncated,  \* truncated[t]: t is the result of a copy that ran out of slots
  buf,        \* the caller's buffer handed to the allocator: [data, size]
  slot_size,  \* S, the size of one slot of the allocator
  m_data,     \* allocator::m_data
  m_size,     \* allocator::m_size
  m_stack,    \* allocator<T, N, true>::m_stack: addresses of the free slots, head first
  held,       \* the slots allocate() returned that were not given back
  out,        \* the last allocator operation and its result
  phase,      \* "raw": no allocator yet; "init": init() ran; "bound": m_stack built
  other,      \* a second allocator handle: the buffer it was built over and its members
  eq          \* the last comparison of the two handles and its result

treevars == <<node, pool, free, slot_count, ret, call, truncated>>
eqvars == <<other, eq>>
allocvars == <<buf, slot_size, m_data, m_size, m_stack, held, out, phase, other, eq>>
vars == <<node, pool, free, slot_count, ret, call, truncated,
          buf, slot_size, m_data, m_size, m_stack, held, out, phase, other, eq>>

\* ------------------------------------------------- successor algorithms
RECURSIVE leftmost(_, _)
leftmost(m, q) == IF has_null_llink(m[q].tag) THEN q ELSE leftmost(m, m[q].llink)

RECURSIVE rightmost(_, _)
rightmost(m, q) == IF has_null_rlink(m[q].tag) THEN q ELSE rightmost(m, m[q].rlink)

inorder_successor(m, p) ==
  IF has_null_rlink(m[p].tag) THEN m[p].rlink ELSE leftmost(m, m[p].rlink)

inorder_predecessor(m, p) ==
  IF has_null_llink(m[p].tag) THEN m[p].llink ELSE rightmost(m, m[p].llink)

RECURSIVE climb(_, _)
climb(m, q) == IF has_null_rlink(m[q].tag) THEN climb(m, m[q].rlink) ELSE m[q].rlink

preorder_successor(m, p) ==
  IF ~has_null_llink(m[p].tag) THEN m[p].llink
  ELSE IF ~has_null_rlink(m[p].tag) THEN m[p].rlink
  ELSE climb(m, p)

attach_node_left(m, p, q) ==
  [m EXCEPT ![q].llink = m[p].llink,
            ![q].rlink = p,
            ![q].tag = {lbit, rbit},
            ![p].llink = q,
            ![p].tag = m[p].tag \ {lbit}]

attach_node_right(m, p, q) ==
  [m EXCEPT ![q].rlink = m[p].rlink,
            ![q].llink = p,
            ![q].tag = {lbit, rbit},
            ![p].rlink = q,
            ![p].tag = m[p].tag \ {rbit}]

\* ------------------------------------------------------------ node pool
pop(stack) == IF stack = <<>> THEN null ELSE Head(stack)
popped(stack) == IF stack = <<>> THEN stack ELSE Tail(stack)
push(stack, p) == <<p>> \o stack

\* node_pool::allocate() as bst uses it: the head of the free chain, or null.
pool_allocate(stack) == [p |-> pop(stack), stack |-> popped(stack)]
\* node_pool::deallocate(p)
pool_deallocate(stack, p) == push(stack, p)

\* ---------------------------------------------------------------- views
RECURSIVE Sub(_, _)
\* the nodes of the subtree rooted at p, following Child links only
Sub(m, p) ==
  {p} \cup (IF has_null_llink(m[p].tag) THEN {} ELSE Sub(m, m[p].llink))
      \cup (IF has_null_rlink(m[p].tag) THEN {} ELSE Sub(m, m[p].rlink))

NodesOf(m, t) ==
  IF m[head(t)] = Blank \/ has_null_llink(m[head(t)].tag) THEN {} ELSE Sub(m, m[head(t)].llink)

comp(a, b) == a < b

\* The free chain as built over a fresh buffer: every slot linked to the next.
FreshChain(a, n) == [i \in 1..n |-> SlotBase(a) + i]

\* ---------------------------------------------------------------- clear
RECURSIVE left_path_freed(_, _)
\* the descent by left children from q reads a node already deallocated
left_path_freed(m, q) ==
  IF m[q] = Blank THEN TRUE
  ELSE IF has_null_llink(m[q].tag) THEN FALSE
  ELSE left_path_freed(m, m[q].llink)

\* inorder_successor(p) reads the tag or a link of a node already deallocated:
\* p itself, or a node on the left spine of its right child
reads_freed(m, p) ==
  IF m[p] = Blank THEN TRUE
  ELSE IF has_null_rlink(m[p].tag) THEN FALSE
  ELSE left_path_freed(m, m[p].rlink)

RECURSIVE clear_loop_break_first(_, _, _, _, _)
\* clear's loop with the test for the sentinel placed before the deallocation
clear_loop_break_first(m, fr, a, p, h) ==
  LET q == inorder_successor(m, p)
      m1 == IF p # h THEN [m EXCEPT ![p] = Blank] ELSE m
      fr1 == IF p # h THEN [fr EXCEPT ![a] = pool_deallocate(fr[a], p)] ELSE fr
  IN IF q = h THEN [node |-> m, free |-> fr, stale |-> reads_freed(m, p)]
     ELSE LET rest == clear_loop_break_first(m1, fr1, a, q, h)
          IN [rest EXCEPT !.stale = @ \/ reads_freed(m, p)]

RECURSIVE clear_loop_head_too(_, _, _, _, _)
\* clear's loop without the test that keeps the sentinel out of deallocate
clear_loop_head_too(m, fr, a, p, h) ==
  LET q == inorder_successor(m, p)
      m1 == IF p # h THEN [m EXCEPT ![p] = Blank] ELSE m
      fr1 == [fr EXCEPT ![a] = pool_deallocate(fr[a], p)]
  IN IF q = h THEN [node |-> m1, free |-> fr1, stale |-> reads_freed(m, p)]
     ELSE LET rest == clear_loop_head_too(m1, fr1, a, q, h)
          IN [rest EXCEPT !.stale = @ \/ reads_freed(m, p)]

RECURSIVE clear_loop_free_first(_, _, _, _, _)
\* clear's loop deallocating p before it computes p's successor; the freed
\* bytes are taken to be still intact when they are read
clear_loop_free_first(m, fr, a, p, h) ==
  LET m1 == IF p # h THEN [m EXCEPT ![p] = Blank] ELSE m
      fr1 == IF p # h THEN [fr EXCEPT ![a] = pool_deallocate(fr[a], p)] ELSE fr
      q == inorder_successor(m, p)
  IN IF q = h THEN [node |-> m1, free |-> fr1, stale |-> reads_freed(m1, p)]
     ELSE LET rest == clear_loop_free_first(m1, fr1, a, q, h)
          IN [rest EXCEPT !.stale = @ \/ reads_freed(m1, p)]

RECURSIVE clear_loop(_, _, _, _, _)
clear_loop(m, fr, a, p, h) ==
  LET q == inorder_successor(m, p)
      m1 == IF p # h THEN [m EXCEPT ![p] = Blank] ELSE m
      fr1 == IF p # h THEN [fr EXCEPT ![a] = pool_deallocate(fr[a], p)] ELSE fr
  IN IF q = h THEN [node |-> m1, free |-> fr1, stale |-> reads_freed(m, p)]
     ELSE LET rest == clear_loop(m1, fr1, a, q, h)
          IN [rest EXCEPT !.stale = @ \/ reads_freed(m, p)]

\* clear that resets the whole arena, as if the tree were its only user
clear_whole_arena(m, fr, a, t) ==
  [node |-> [p \in DOMAIN m |->
               IF p = head(t) THEN EmptyHead(t)
               ELSE IF p \in Slots /\ ArenaOf(p) = a THEN Blank ELSE m[p]],
   free |-> [fr EXCEPT ![a] = FreshChain(a, slot_count[a])],
   stale |-> FALSE]

\* clear that resets the sentinel without returning the nodes to the arena
clear_no_free(m, fr, a, t) ==
  [node |-> [m EXCEPT ![head(t)] = EmptyHead(t)], free |-> fr, stale |-> FALSE]

clear(m, fr, a, t) ==
  LET r == clear_loop(m, fr, a, head(t), head(t))
  IN [node |-> [r.node EXCEPT ![head(t)] = EmptyHead(t)], free |-> r.free,
      stale |-> r.stale]

\* --------------------------------------------------------------- insert
RECURSIVE descend_no_equal(_, _, _)
\* the descent with the second comparison dropped: an equal key goes right
descend_no_equal(m, p, key) ==
  IF comp(key, m[p].key)
  THEN IF ~has_null_llink(m[p].tag) THEN descend_no_equal(m, m[p].llink, key)
       ELSE [p |-> p, dir |-> "left"]
  ELSE IF ~has_null_rlink(m[p].tag) THEN descend_no_equal(m, m[p].rlink, key)
       ELSE [p |-> p, dir |-> "right"]

RECURSIVE descend(_, _, _)
\* the descent loop of insert: where it stops and on which side
descend(m, p, key) ==
  IF comp(key, m[p].key)
  THEN IF ~has_null_llink(m[p].tag) THEN descend(m, m[p].llink, key)
       ELSE [p |-> p, dir |-> "left"]
  ELSE IF comp(m[p].key, key)
  THEN IF ~has_null_rlink(m[p].tag) THEN descend(m, m[p].rlink, key)
       ELSE [p |-> p, dir |-> "right"]
  ELSE [p |-> p, dir |-> "equal"]

Failed(m, stack) == [node |-> m, stack |-> stack, cursor |-> null, inserted |-> FALSE]

\* insert attaching on the left in both branches of the descent
insert_left_for_right(m, stack, t, key) ==
  LET al == pool_allocate(stack)
      q == al.p
  IN IF has_null_llink(m[head(t)].tag)
     THEN IF q = null THEN Failed(m, stack)
          ELSE [node |-> [attach_node_left(m, head(t), q) EXCEPT ![q].key = key],
                stack |-> al.stack, cursor |-> q, inserted |-> TRUE]
     ELSE LET d == descend(m, m[head(t)].llink, key)
          IN IF d.dir = "equal"
             THEN [node |-> m, stack |-> stack, cursor |-> d.p, inserted |-> FALSE]
             ELSE IF q = null THEN Failed(m, stack)
             ELSE [node |-> [attach_node_left(m, d.p, q) EXCEPT ![q].key = key],
                   stack |-> al.stack, cursor |-> q, inserted |-> TRUE]

\* insert returning the node the descent stopped at when the arena is exhausted
insert_cursor_when_full(m, stack, t, key) ==
  LET al == pool_allocate(stack)
      q == al.p
  IN IF has_null_llink(m[head(t)].tag)
     THEN IF q = null THEN Failed(m, stack)
          ELSE [node |-> [attach_node_left(m, head(t), q) EXCEPT ![q].key = key],
                stack |-> al.stack, cursor |-> q, inserted |-> TRUE]
     ELSE LET d == descend(m, m[head(t)].llink, key)
          IN IF d.dir = "equal" \/ q = null
             THEN [node |-> m, stack |-> stack, cursor |-> d.p, inserted |-> FALSE]
             ELSE IF d.dir = "left"
             THEN [node |-> [attach_node_left(m, d.p, q) EXCEPT ![q].key = key],
                   stack |-> al.stack, cursor |-> q, inserted |-> TRUE]
             ELSE [node |-> [attach_node_right(m, d.p, q) EXCEPT ![q].key = key],
                   stack |-> al.stack, cursor |-> q, inserted |-> TRUE]

\* insert that attaches the head of the free chain without removing it
insert_no_pop(m, stack, t, key) ==
  LET al == pool_allocate(stack)
      q == al.p
  IN IF has_null_llink(m[head(t)].tag)
     THEN IF q = null THEN Failed(m, stack)
          ELSE [node |-> [attach_node_left(m, head(t), q) EXCEPT ![q].key = key],
                stack |-> stack, cursor |-> q, inserted |-> TRUE]
     ELSE LET d == descend(m, m[head(t)].llink, key)
          IN IF d.dir = "equal"
             THEN [node |-> m, stack |-> stack, cursor |-> d.p, inserted |-> FALSE]
             ELSE IF q = null THEN Failed(m, stack)
             ELSE IF d.dir = "left"
             THEN [node |-> [attach_node_left(m, d.p, q) EXCEPT ![q].key = key],
                   stack |-> stack, cursor |-> q, inserted |-> TRUE]
             ELSE [node |-> [attach_node_right(m, d.p, q) EXCEPT ![q].key = key],
                   stack |-> stack, cursor |-> q, inserted |-> TRUE]

\* insert hanging the first node on the right of the sentinel
insert_root_on_right(m, stack, t, key) ==
  LET al == pool_allocate(stack)
      q == al.p
  IN IF has_null_llink(m[head(t)].tag)
     THEN IF q = null THEN Failed(m, stack)
          ELSE [node |-> [attach_node_right(m, head(t), q) EXCEPT ![q].key = key],
                stack |-> al.stack, cursor |-> q, inserted |-> TRUE]
     ELSE LET d == descend(m, m[head(t)].llink, key)
          IN IF d.dir = "equal"
             THEN [node |-> m, stack |-> stack, cursor |-> d.p, inserted |-> FALSE]
             ELSE IF q = null THEN Failed(m, stack)
             ELSE IF d.dir = "left"
             THEN [node |-> [attach_node_left(m, d.p, q) EXCEPT ![q].key = key],
                   stack |-> al.stack, cursor |-> q, inserted |-> TRUE]
             ELSE [node |-> [attach_node_right(m, d.p, q) EXCEPT ![q].key = key],
                   stack |-> al.stack, cursor |-> q, inserted |-> TRUE]

insert(m, stack, t, key) ==
  LET al == pool_allocate(stack)
      q == al.p
  IN IF has_null_llink(m[head(t)].tag)
     THEN IF q = null THEN Failed(m, stack)
          ELSE [node |-> [attach_node_left(m, head(t), q) EXCEPT ![q].key = key],
                stack |-> al.stack, cursor |-> q, inserted |-> TRUE]
     ELSE LET d == descend(m, m[head(t)].llink, key)
          IN IF d.dir = "equal"
             THEN [node |-> m, stack |-> stack, cursor |-> d.p, inserted |-> FALSE]
             ELSE IF q = null THEN Failed(m, stack)
             ELSE IF d.dir = "left"
             THEN [node |-> [attach_node_left(m, d.p, q) EXCEPT ![q].key = key],
                   stack |-> al.stack, cursor |-> q, inserted |-> TRUE]
             ELSE [node |-> [attach_node_right(m, d.p, q) EXCEPT ![q].key = key],
                   stack |-> al.stack, cursor |-> q, inserted |-> TRUE]

\* ----------------------------------------------------------------- copy
RECURSIVE copy_loop_left_for_right(_, _, _, _, _)
\* copy's loop attaching the right child with attach_node_left
copy_loop_left_for_right(m, stack, p, q, hs) ==
  LET needl == ~has_null_llink(m[p].tag)
      al == pool_allocate(stack)
  IN IF needl /\ al.p = null THEN [node |-> m, stack |-> stack, full |-> TRUE]
     ELSE
      LET m1 == IF needl THEN attach_node_left(m, q, al.p) ELSE m
          s1 == IF needl THEN al.stack ELSE stack
          p1 == preorder_successor(m1, p)
          q1 == preorder_successor(m1, q)
      IN IF p1 = hs THEN [node |-> m1, stack |-> s1, full |-> FALSE]
         ELSE
          LET needr == ~has_null_rlink(m1[p1].tag)
              ar == pool_allocate(s1)
          IN IF needr /\ ar.p = null THEN [node |-> m1, stack |-> s1, full |-> TRUE]
             ELSE
              LET m2 == IF needr THEN attach_node_left(m1, q1, ar.p) ELSE m1
                  s2 == IF needr THEN ar.stack ELSE s1
                  m3 == [m2 EXCEPT ![q1].key = m2[p1].key]
              IN copy_loop_left_for_right(m3, s2, p1, q1, hs)

RECURSIVE copy_loop_eager_allocate(_, _, _, _, _)
\* copy's loop allocating the right child's slot before testing for the child
copy_loop_eager_allocate(m, stack, p, q, hs) ==
  LET needl == ~has_null_llink(m[p].tag)
      al == pool_allocate(stack)
  IN IF needl /\ al.p = null THEN [node |-> m, stack |-> stack, full |-> TRUE]
     ELSE
      LET m1 == IF needl THEN attach_node_left(m, q, al.p) ELSE m
          s1 == IF needl THEN al.stack ELSE stack
          p1 == preorder_successor(m1, p)
          q1 == preorder_successor(m1, q)
      IN IF p1 = hs THEN [node |-> m1, stack |-> s1, full |-> FALSE]
         ELSE
          LET needr == ~has_null_rlink(m1[p1].tag)
              ar == pool_allocate(s1)
          IN IF needr /\ ar.p = null THEN [node |-> m1, stack |-> s1, full |-> TRUE]
             ELSE
              LET m2 == IF needr THEN attach_node_right(m1, q1, ar.p) ELSE m1
                  s2 == ar.stack
                  m3 == [m2 EXCEPT ![q1].key = m2[p1].key]
              IN copy_loop_eager_allocate(m3, s2, p1, q1, hs)

RECURSIVE copy_loop(_, _, _, _, _)
\* p walks the source, q the destination; hs is the source's sentinel
copy_loop(m, stack, p, q, hs) ==
  LET needl == ~has_null_llink(m[p].tag)
      al == pool_allocate(stack)
  IN IF needl /\ al.p = null THEN [node |-> m, stack |-> stack, full |-> TRUE]
     ELSE
      LET m1 == IF needl THEN attach_node_left(m, q, al.p) ELSE m
          s1 == IF needl THEN al.stack ELSE stack
          p1 == preorder_successor(m1, p)
          q1 == preorder_successor(m1, q)
      IN IF p1 = hs THEN [node |-> m1, stack |-> s1, full |-> FALSE]
         ELSE
          LET needr == ~has_null_rlink(m1[p1].tag)
              ar == pool_allocate(s1)
          IN IF needr /\ ar.p = null THEN [node |-> m1, stack |-> s1, full |-> TRUE]
             ELSE
              LET m2 == IF needr THEN attach_node_right(m1, q1, ar.p) ELSE m1
                  s2 == IF needr THEN ar.stack ELSE s1
                  m3 == [m2 EXCEPT ![q1].key = m2[p1].key]
              IN copy_loop(m3, s2, p1, q1, hs)

\* copy that rebinds the destination to the source's arena before clearing it
copy_rebind_first(m, fr, pl, src, dst) ==
  IF src = dst
  THEN [node |-> m, free |-> fr, pool |-> pl, full |-> FALSE, stale |-> FALSE]
  ELSE LET a == pl[src]
           c == clear(m, fr, a, dst)
           r == copy_loop(c.node, c.free[a], head(src), head(dst), head(src))
       IN [node |-> r.node,
           free |-> [c.free EXCEPT ![a] = r.stack],
           pool |-> [pl EXCEPT ![dst] = a],
           full |-> r.full,
           stale |-> c.stale]

\* copy without the test for this == &rhs
copy_no_self_guard(m, fr, pl, src, dst) ==
  LET c == clear(m, fr, pl[dst], dst)
      a == pl[src]
      r == copy_loop(c.node, c.free[a], head(src), head(dst), head(src))
  IN [node |-> r.node,
      free |-> [c.free EXCEPT ![a] = r.stack],
      pool |-> [pl EXCEPT ![dst] = a],
      full |-> r.full,
      stale |-> c.stale]

\* src.copy(dst): `this` is src, `rhs` is dst
copy(m, fr, pl, src, dst) ==
  IF src = dst
  THEN [node |-> m, free |-> fr, pool |-> pl, full |-> FALSE, stale |-> FALSE]
  ELSE LET c == clear(m, fr, pl[dst], dst)
           a == pl[src]
           r == copy_loop(c.node, c.free[a], head(src), head(dst), head(src))
       IN [node |-> r.node,
           free |-> [c.free EXCEPT ![a] = r.stack],
           pool |-> [pl EXCEPT ![dst] = a],
           full |-> r.full,
           stale |-> c.stale]

\* A node attached by copy whose key was never assigned holds whatever the
\* slot held: any key value.
Keyless(m, t) == {s \in NodesOf(m, t) : m[s].key = NoKey}
WithJunk(m, junk) ==
  [p \in Ptrs |-> IF p \in DOMAIN junk THEN [m[p] EXCEPT !.key = junk[p]] ELSE m[p]]

\* -------------------------------------------------------------- actions
NoRet == [cursor |-> null, inserted |-> FALSE]
Call(op, t, arg) ==
  [op |-> op, t |-> t, arg |-> arg, full |-> FALSE, stale |-> FALSE, old |-> NoPool, freed |-> 0]

InitTrees(caps1, caps2) ==
  /\ node = [p \in Ptrs |-> Blank]
  /\ pool = [t \in Trees |-> NoPool]
  /\ \E n1 \in caps1, n2 \in caps2 :
        /\ slot_count = <<n1, n2>>
        /\ free = [a \in Arenas |-> FreshChain(a, slot_count[a])]
  /\ ret = NoRet
  /\ call = Call("none", 0, 0)
  /\ truncated = [t \in Trees |-> FALSE]

NoOut == [op |-> "none", p |-> null, thrown |-> FALSE]

\* no second handle, nothing compared
NoOther == [made |-> FALSE, buf |-> [data |-> 0, size |-> 0], m_data |-> 0, m_size |-> 0]
NoEq == [op |-> "none", result |-> FALSE]

\* no allocator object of memory/allocator.hpp exists
NoAllocator ==
  /\ other = NoOther
  /\ eq = NoEq
  /\ buf = [data |-> 0, size |-> 0]
  /\ slot_size = WordSize
  /\ m_data = 0 /\ m_size = 0 /\ m_stack = <<>>
  /\ held = {}
  /\ out = NoOut
  /\ phase = "raw"

Init == InitTrees(0..GenCap, 0..Cap2) /\ NoAllocator
InitPair == InitTrees(0..Cap1, {Cap2}) /\ NoAllocator
InitCycle == InitTrees(0..MaxKey, {0}) /\ NoAllocator
InitShare == InitTrees(0..GenCap, {0}) /\ NoAllocator

\* bst(Allocator& alloc)
Construct(t, a) ==
  /\ pool[t] = NoPool
  /\ node' = [node EXCEPT ![head(t)] = EmptyHead(t)]
  /\ pool' = [pool EXCEPT ![t] = a]
  /\ ret' = NoRet
  /\ call' = Call("construct", t, a)
  /\ UNCHANGED <<free, slot_count, truncated>>
  /\ UNCHANGED allocvars

CopyInto(op, src, dst, m) ==
  LET r == copy(m, free, pool, src, dst)
  IN /\ \E junk \in [Keyless(r.node, dst) -> Keys] : node' = WithJunk(r.node, junk)
     /\ free' = r.free
     /\ pool' = r.pool
     /\ ret' = NoRet
     /\ call' = [op |-> op, t |-> dst, arg |-> src, full |-> r.full, stale |-> r.stale,
                 old |-> pool[dst],
                 freed |-> IF src = dst THEN 0 ELSE Cardinality(NodesOf(m, dst))]
     /\ truncated' = IF src = dst THEN truncated
                     ELSE [truncated EXCEPT ![dst] = r.full \/ truncated[src]]
     /\ UNCHANGED slot_count
     /\ UNCHANGED allocvars

\* bst(const bst& rhs): the new tree is t, rhs is src
CopyConstruct(t, src) ==
  /\ pool[t] = NoPool
  /\ pool[src] # NoPool
  /\ CopyInto("copy_construct", src, t, [node EXCEPT ![head(t)] = EmptyHead(t)])

\* t = src
Assign(t, src) ==
  /\ pool[t] # NoPool
  /\ pool[src] # NoPool
  /\ CopyInto("assign", src, t, node)

Insert(t, key) ==
  /\ pool[t] # NoPool
  /\ LET r == insert(node, free[pool[t]], t, key)
     IN /\ node' = r.node
        /\ free' = [free EXCEPT ![pool[t]] = r.stack]
        /\ ret' = [cursor |-> r.cursor, inserted |-> r.inserted]
  /\ call' = Call("insert", t, key)
  /\ UNCHANGED <<pool, slot_count, truncated>>
  /\ UNCHANGED allocvars

Clear(t) ==
  /\ pool[t] # NoPool
  /\ LET r == clear(node, free, pool[t], t)
     IN /\ node' = r.node
        /\ free' = r.free
        /\ call' = [Call("clear", t, 0) EXCEPT !.stale = r.stale]
  /\ ret' = NoRet
  /\ truncated' = [truncated EXCEPT ![t] = FALSE]
  /\ UNCHANGED <<pool, slot_count>>
  /\ UNCHANGED allocvars

\* ~bst()
Destroy(t) ==
  /\ pool[t] # NoPool
  /\ LET r == clear(node, free, pool[t], t)
     IN /\ node' = [r.node EXCEPT ![head(t)] = Blank]
        /\ free' = r.free
        /\ call' = [Call("destroy", t, 0) EXCEPT !.stale = r.stale]
  /\ pool' = [pool EXCEPT ![t] = NoPool]
  /\ ret' = NoRet
  /\ truncated' = [truncated EXCEPT ![t] = FALSE]
  /\ UNCHANGED slot_count
  /\ UNCHANGED allocvars

Next ==
  \/ \E t \in Trees, a \in Arenas : Construct(t, a)
  \/ \E t \in Trees, s \in Trees : CopyConstruct(t, s)
  \/ \E t \in Trees, s \in Trees : Assign(t, s)
  \/ \E t \in Trees, k \in 1..GenKey : Insert(t, k)
  \/ \E t \in Trees : Clear(t)
  \/ \E t \in Trees : Destroy(t)

Spec == Init /\ [][Next]_vars

\* Tree 1 is built by inserts alone and is the source of every copy; tree 2
\* is the destination. Arena 1 holds up to Cap1 slots.
NextPair ==
  \/ \E a \in Arenas : Construct(1, a)
  \/ \E k \in Keys : Insert(1, k)
  \/ \E a \in Arenas : Construct(2, a)
  \/ CopyConstruct(2, 1)
  \/ Assign(2, 1)
  \/ Clear(2)
  \/ Destroy(2)

SpecPair == InitPair /\ [][NextPair]_vars

\* One tree alone on arena 1, which holds at most as many slots as there are
\* keys: filled, cleared and filled again.
NextCycle ==
  \/ Construct(1, 1)
  \/ \E k \in Keys : Insert(1, k)
  \/ Clear(1)
  \/ Destroy(1)

SpecCycle == InitCycle /\ [][NextCycle]_vars

\* Two trees on the one arena 1: every operation of either interleaves.
NextShare ==
  \/ \E t \in Trees : Construct(t, 1)
  \/ \E t \in Trees, s \in Trees : CopyConstruct(t, s)
  \/ \E t \in Trees, s \in Trees : Assign(t, s)
  \/ \E t \in Trees, k \in 1..GenKey : Insert(t, k)
  \/ \E t \in Trees : Clear(t)
  \/ \E t \in Trees : Destroy(t)

SpecShare == InitShare /\ [][NextShare]_vars

\* ------------------------------------------------------------ allocator
\* allocator::init(data, size): the fields it leaves in the object. The last
\* statement, size = c - a, assigns the parameter; m_size keeps the full length.
init(data, size) ==
  LET a == data
      b == WordSize
      c == IF is_aligned(a, b) THEN a ELSE next_aligned(a, b)
  IN [m_data |-> c, m_size |-> size]

\* node_stack<S>(data, size): size / S slots from data on, each linked to the next
node_stack(data, size, S) == [i \in 1..(size \div S) |-> data + (i - 1) * S]

\* allocator<T, N, true>::allocate
allocate_unchecked(stack) ==
  [p |-> pop(stack), stack |-> popped(stack), thrown |-> FALSE]

allocate(stack) ==
  LET p == pop(stack)
  IN IF p = null THEN [p |-> null, stack |-> popped(stack), thrown |-> TRUE]
     ELSE [p |-> p, stack |-> popped(stack), thrown |-> FALSE]

\* allocator<T, N, true>::deallocate
deallocate(stack, p) == push(stack, p)

InitAlloc ==
  /\ node = [p \in Ptrs |-> Blank]
  /\ pool = [t \in Trees |-> NoPool]
  /\ slot_count = <<0, 0>>
  /\ free = <<<<>>, <<>>>>
  /\ ret = NoRet
  /\ call = Call("none", 0, 0)
  /\ truncated = [t \in Trees |-> FALSE]
  /\ buf \in [data : 1..MaxAddr, size : 0..MaxLen]
  /\ slot_size \in {WordSize, WordSize + WordSize \div 2}
  /\ m_data = 0 /\ m_size = 0 /\ m_stack = <<>>
  /\ held = {}
  /\ out = NoOut
  /\ phase = "raw"
  /\ other = NoOther
  /\ eq = NoEq

\* allocator(char* data, std::size_t size) { init(data, size); }
MakeAllocator ==
  /\ phase = "raw"
  /\ LET r == init(buf.data, buf.size)
     IN m_data' = r.m_data /\ m_size' = r.m_size
  /\ phase' = "init"
  /\ out' = [op |-> "init", p |-> null, thrown |-> FALSE]
  /\ UNCHANGED <<buf, slot_size, m_stack, held>>
  /\ UNCHANGED eqvars
  /\ UNCHANGED treevars

\* allocator<T, N, true>(const allocator<U, ..., false>& alloc)
Rebind ==
  /\ phase = "init"
  /\ m_stack' = node_stack(m_data, m_size, slot_size)
  /\ phase' = "bound"
  /\ out' = [op |-> "rebind", p |-> null, thrown |-> FALSE]
  /\ UNCHANGED <<buf, slot_size, m_data, m_size, held>>
  /\ UNCHANGED eqvars
  /\ UNCHANGED treevars

Allocate ==
  /\ phase = "bound"
  /\ LET r == allocate(m_stack)
     IN /\ m_stack' = r.stack
        /\ held' = IF r.thrown THEN held ELSE held \cup {r.p}
        /\ out' = [op |-> "allocate", p |-> r.p, thrown |-> r.thrown]
  /\ UNCHANGED <<buf, slot_size, m_data, m_size, phase>>
  /\ UNCHANGED eqvars
  /\ UNCHANGED treevars

Deallocate(p) ==
  /\ phase = "bound"
  /\ p \in held
  /\ m_stack' = deallocate(m_stack, p)
  /\ held' = held \ {p}
  /\ out' = [op |-> "deallocate", p |-> p, thrown |-> FALSE]
  /\ UNCHANGED <<buf, slot_size, m_data, m_size, phase>>
  /\ UNCHANGED eqvars
  /\ UNCHANGED treevars

NextAlloc ==
  \/ MakeAllocator
  \/ Rebind
  \/ Allocate
  \/ \E p \in held : Deallocate(p)

SpecAlloc == InitAlloc /\ [][NextAlloc]_vars

\* bool operator==(const allocator& alloc) const, on the members of the two handles
operator_eq(this_m_data, alloc_m_data) == this_m_data = alloc_m_data

\* bool operator!=(const allocator& alloc) const
operator_ne(this_m_data, alloc_m_data) == ~operator_eq(this_m_data, alloc_m_data)

\* a second allocator(char* data, std::size_t size), over a buffer of its own
\* or over the buffer of the first
MakeOther(data, size) ==
  /\ ~other.made
  /\ LET r == init(data, size)
     IN other' = [made |-> TRUE, buf |-> [data |-> data, size |-> size],
                  m_data |-> r.m_data, m_size |-> r.m_size]
  /\ UNCHANGED <<buf, slot_size, m_data, m_size, m_stack, held, out, phase, eq>>
  /\ UNCHANGED treevars

Equal ==
  /\ phase = "init"
  /\ other.made
  /\ eq' = [op |-> "==", result |-> operator_eq(m_data, other.m_data)]
  /\ UNCHANGED <<buf, slot_size, m_data, m_size, m_stack, held, out, phase, other>>
  /\ UNCHANGED treevars

NotEqual ==
  /\ phase = "init"
  /\ other.made
  /\ eq' = [op |-> "!=", result |-> operator_ne(m_data, other.m_data)]
  /\ UNCHANGED <<buf, slot_size, m_data, m_size, m_stack, held, out, phase, other>>
  /\ UNCHANGED treevars

\* two handles, each over a buffer of any start address and length
NextEq ==
  \/ MakeAllocator
  \/ \E d \in 1..MaxAddr, sz \in 0..MaxLen : MakeOther(d, sz)
  \/ Equal
  \/ NotEqual

InitEq == InitAlloc /\ slot_size = WordSize

SpecEq == InitEq /\ [][NextEq]_vars

\* ------------------------------------------------------ derived notions
Range(f) == {f[i] : i \in DOMAIN f}
Live(t) == pool[t] # NoPool
IsCopy(c) == c.op \in {"copy_construct", "assign"} /\ c.t # c.arg

\* begin() taken to be the root instead of the sentinel's inorder successor
begin_is_root(m, t) == m[head(t)].llink

begin(m, t) == inorder_successor(m, head(t))
end(t) == head(t)
\* a reverse iterator is the forward iterator it wraps (its base); it stands
\* for the element before its base
rbegin(t) == end(t)
rend(m, t) == begin(m, t)

RECURSIVE RevWalkFrom(_, _, _, _)
\* the nodes a reverse iterator with base p yields until its base equals b
RevWalkFrom(m, p, b, fuel) ==
  IF p = b \/ fuel = 0 THEN <<>>
  ELSE LET q == inorder_predecessor(m, p)
       IN <<q>> \o RevWalkFrom(m, q, b, fuel - 1)

RevWalk(m, t) == RevWalkFrom(m, rbegin(t), rend(m, t), Cardinality(Slots) + 1)

Reverse(f) == [i \in 1..Len(f) |-> f[Len(f) + 1 - i]]

StrictlyDecreasing(f) == \A i, j \in DOMAIN f : i < j => comp(f[j], f[i])

RECURSIVE WalkFrom(_, _, _, _)
\* the nodes visited by incrementing an iterator from p until it equals h
WalkFrom(m, p, h, fuel) ==
  IF p = h \/ fuel = 0 THEN <<>>
  ELSE <<p>> \o WalkFrom(m, inorder_successor(m, p), h, fuel - 1)

Walk(m, t) == WalkFrom(m, begin(m, t), end(t), Cardinality(Slots) + 1)
WalkKeys(m, t) == [i \in DOMAIN Walk(m, t) |-> m[Walk(m, t)[i]].key]

RECURSIVE InorderOf(_, _)
\* the inorder sequence of the subtree at p, by its shape alone
InorderOf(m, p) ==
  (IF has_null_llink(m[p].tag) THEN <<>> ELSE InorderOf(m, m[p].llink))
    \o <<p>> \o
  (IF has_null_rlink(m[p].tag) THEN <<>> ELSE InorderOf(m, m[p].rlink))

TreeSeq(m, t) == IF NodesOf(m, t) = {} THEN <<>> ELSE InorderOf(m, m[head(t)].llink)

RECURSIVE SortedSeq(_)
SortedSeq(S) ==
  IF S = {} THEN <<>>
  ELSE LET mn == CHOOSE x \in S : \A y \in S : x <= y
       IN <<mn>> \o SortedSeq(S \ {mn})

StrictlyIncreasing(f) == \A i, j \in DOMAIN f : i < j => comp(f[i], f[j])

\* every Thread link of tree t denotes the inorder neighbour given by the shape
ThreadsTrue(m, t) ==
  LET sq == TreeSeq(m, t)
      n == Len(sq)
  IN \A i \in 1..n :
       /\ has_null_llink(m[sq[i]].tag) =>
            m[sq[i]].llink = (IF i = 1 THEN head(t) ELSE sq[i - 1])
       /\ has_null_rlink(m[sq[i]].tag) =>
            m[sq[i]].rlink = (IF i = n THEN head(t) ELSE sq[i + 1])

\* the slots of arena a that are not on its free chain
Taken(a) == Range(FreshChain(a, slot_count[a])) \ Range(free[a])

\* t is the only tree bound to its arena
Alone(t) == \A u \in Trees : u # t => pool[u] # pool[t]

RECURSIVE SameSub(_, _, _)
SameSub(m, p, q) ==
  /\ m[p].key = m[q].key
  /\ m[p].tag = m[q].tag
  /\ ~has_null_llink(m[p].tag) => SameSub(m, m[p].llink, m[q].llink)
  /\ ~has_null_rlink(m[p].tag) => SameSub(m, m[p].rlink, m[q].rlink)

SameTree(m, s, d) ==
  /\ has_null_llink(m[head(s)].tag) = has_null_llink(m[head(d)].tag)
  /\ ~has_null_llink(m[head(s)].tag) => SameSub(m, m[head(s)].llink, m[head(d)].llink)

RECURSIVE KeysMatch(_, _, _)
\* every node below q (destination) holds the key of the node at the same
\* position below p (source)
KeysMatch(m, p, q) ==
  /\ m[q].key = m[p].key
  /\ ~has_null_llink(m[q].tag) =>
       ~has_null_llink(m[p].tag) /\ KeysMatch(m, m[p].llink, m[q].llink)
  /\ ~has_null_rlink(m[q].tag) =>
       ~has_null_rlink(m[p].tag) /\ KeysMatch(m, m[p].rlink, m[q].rlink)

\* the free slots the source's arena offers a copy once dst has been cleared
Avail(src, dst) ==
  Range(free[pool[src]]) \cup (IF pool[dst] = pool[src] THEN NodesOf(node, dst) ELSE {})

\* ----------------------------------------------------------- properties

\* C1: an insert into a tree built by inserts, with a free slot at hand or the
\* key already present, leaves the walk from begin() to end() visiting exactly
\* the distinct keys inserted, in strictly increasing order; a key already
\* present returns inserted = false with the cursor on the node holding it,
\* and changes neither the memory nor the free chain.
C1_InsertKeepsOrder ==
  [][\A t \in Trees :
       (call'.op = "insert" /\ call'.t = t /\ ~truncated[t]) =>
         LET k == call'.arg
             before == Range(WalkKeys(node, t))
         IN IF k \in before
            THEN /\ ret'.inserted = FALSE
                 /\ ret'.cursor \in NodesOf(node, t)
                 /\ node[ret'.cursor].key = k
                 /\ node' = node
                 /\ free' = free
            ELSE free[pool[t]] # <<>> =>
                 /\ ret'.inserted = TRUE
                 /\ node'[ret'.cursor].key = k
                 /\ WalkKeys(node', t) = SortedSeq(before \cup {k})
                 /\ StrictlyIncreasing(WalkKeys(node', t))
                 /\ Len(free'[pool[t]]) = Len(free[pool[t]]) - 1]_vars

C1_Witness ==
  /\ call.op = "insert"
  /\ ret.inserted = FALSE
  /\ ret.cursor \in Slots
  /\ Len(Walk(node, call.t)) = 3
  /\ free[pool[call.t]] # <<>>

\* C2: in every tree reached by inserts (successful, duplicate or failed),
\* every Thread link points to the inorder predecessor (left) or successor
\* (right) of its node, the sentinel standing before the minimum and after
\* the maximum.
C2_ThreadsAreInorder ==
  \A t \in Trees : (Live(t) /\ ~truncated[t]) => ThreadsTrue(node, t)

C2_Witness ==
  /\ call.op = "insert"
  /\ ret.cursor = null
  /\ Cardinality(NodesOf(node, call.t)) = 2
  /\ \E s \in NodesOf(node, call.t) : node[s].tag = {lbit}

\* C3: in an arena of N slots used by one tree, an insert of a key not in the
\* tree succeeds while the tree holds fewer than N nodes, and with N nodes it
\* returns (null cursor, false) and leaves memory, free chain and inorder
\* sequence as they were.
C3_FullArenaRejects ==
  [][\A t \in Trees :
       (call'.op = "insert" /\ call'.t = t /\ ~truncated[t] /\ Alone(t)
          /\ call'.arg \notin Range(WalkKeys(node, t))) =>
         IF Cardinality(NodesOf(node, t)) < slot_count[pool[t]]
         THEN ret'.inserted = TRUE
         ELSE /\ ret' = NoRet
              /\ node' = node
              /\ free' = free
              /\ WalkKeys(node', t) = WalkKeys(node, t)
              /\ Len(Walk(node', t)) = slot_count[pool[t]]]_vars

C3_Witness ==
  /\ call.op = "insert"
  /\ ret = NoRet
  /\ Alone(call.t)
  /\ slot_count[pool[call.t]] = 2
  /\ Len(Walk(node, call.t)) = 2
  /\ call.arg \notin Range(WalkKeys(node, call.t))

\* C4: after clear() on the only tree bound to an arena of N slots, all N
\* slots are on the free chain, the sentinel is in the canonical empty state
\* and begin() = end().
C4_ClearFreesAll ==
  (call.op = "clear" /\ Alone(call.t)) =>
    LET t == call.t
        a == pool[t]
    IN /\ Len(free[a]) = slot_count[a]
       /\ Range(free[a]) = Range(FreshChain(a, slot_count[a]))
       /\ node[head(t)] = EmptyHead(t)
       /\ begin(node, t) = end(t)

C4_Witness ==
  /\ call.op = "clear"
  /\ Alone(call.t)
  /\ slot_count[pool[call.t]] = 2
  /\ free[pool[call.t]] # FreshChain(pool[call.t], 2)

\* C5: a copy (copy construction or assignment) whose source arena offers, once
\* the destination is cleared, at least as many free slots as the source has
\* nodes gives the destination the shape, tags and keys of the source, hence
\* the same inorder sequence, and leaves the source as it was.
C5_CopyEqualsSource ==
  [][(IsCopy(call') /\ Cardinality(Avail(call'.arg, call'.t))
                          >= Cardinality(NodesOf(node, call'.arg))) =>
       LET s == call'.arg
           d == call'.t
       IN /\ ~call'.full
          /\ SameTree(node', s, d)
          /\ WalkKeys(node', d) = WalkKeys(node', s)
          /\ Len(Walk(node', d)) = Cardinality(NodesOf(node, s))
          /\ NodesOf(node', s) = NodesOf(node, s)
          /\ \A p \in NodesOf(node, s) \cup {head(s)} : node'[p] = node[p]]_vars

C5_Witness ==
  /\ IsCopy(call)
  /\ ~call.full
  /\ Len(Walk(node, call.t)) = 3
  /\ \E s \in NodesOf(node, call.t) : node[s].tag = {}

\* C6: when an allocation fails during a copy, the destination holds exactly
\* the k nodes whose allocations succeeded, each of its Thread links points to
\* the inorder neighbour, none of its links leaves the destination, and k
\* increments from begin() reach end().
C6_TruncatedCopyIsRing ==
  [][(IsCopy(call') /\ call'.full) =>
       LET s == call'.arg
           d == call'.t
           got == Avail(s, d) \ Range(free'[pool[s]])
       IN /\ NodesOf(node', d) = got
          /\ ThreadsTrue(node', d)
          /\ \A p \in got : {node'[p].llink, node'[p].rlink} \subseteq got \cup {head(d)}
          /\ node'[head(d)].llink \in got \cup {head(d)}
          /\ Len(Walk(node', d)) = Cardinality(got)
          /\ Range(Walk(node', d)) = got]_vars

C6_Witness ==
  /\ IsCopy(call)
  /\ call.full
  /\ Len(Walk(node, call.t)) = 2

\* C7: when an allocation fails during a copy, every node of the destination
\* holds the key of the source node at the same position, so the destination's
\* inorder keys are strictly increasing.
C7_TruncatedCopyKeys ==
  (IsCopy(call) /\ call.full /\ ~truncated[call.arg]) =>
    /\ NodesOf(node, call.t) # {} =>
         KeysMatch(node, node[head(call.arg)].llink, node[head(call.t)].llink)
    /\ StrictlyIncreasing(WalkKeys(node, call.t))

\* C8: every slot of every arena is either a node of exactly one tree or
\* exactly once on its arena's free chain, never both and never neither, so
\* live + free = slot_count.
C8_LiveOrFree ==
  \A a \in Arenas :
    /\ \A s \in Range(FreshChain(a, slot_count[a])) :
         Cardinality({t \in Trees : s \in NodesOf(node, t)})
           + Cardinality({i \in DOMAIN free[a] : free[a][i] = s}) = 1
    /\ Range(free[a]) \subseteq Range(FreshChain(a, slot_count[a]))
    /\ \A t \in Trees : pool[t] = a => NodesOf(node, t) \subseteq Range(FreshChain(a, slot_count[a]))

C8_Witness ==
  /\ call.op \in {"assign", "clear", "destroy"}
  /\ \E t \in Trees : Live(t) /\ NodesOf(node, t) # {} /\ pool[t] = 1
  /\ Len(free[1]) = 1
  /\ slot_count[1] = 2
  /\ free[2] = <<>>
  /\ slot_count[2] = 1

\* C9: init on a buffer whose start is not word-aligned stores the next
\* aligned address as the start and the length less the skipped bytes, so the
\* allocator holds (length - padding) / slot_size slots and no slot extends
\* past the end of the buffer.
C9_InitReducesLength ==
  LET pad == next_aligned(buf.data, WordSize) - buf.data
      slots == held \cup Range(m_stack)
  IN (phase # "raw" /\ ~is_aligned(buf.data, WordSize) /\ buf.size >= pad) =>
       /\ m_data = buf.data + pad
       /\ m_size = buf.size - pad
       /\ phase = "bound" =>
            /\ Cardinality(slots) = (buf.size - pad) \div slot_size
            /\ \A p \in slots : p + slot_size <= buf.data + buf.size

\* C10: allocate() on an empty free chain reports the failure, returns no
\* slot and leaves the allocator as it was; on a non-empty chain it returns
\* the slot at the head of the chain, which is not a slot already handed out,
\* and removes exactly that slot.
C10_AllocatePopsOrFails ==
  [][out'.op = "allocate" =>
       IF m_stack = <<>>
       THEN /\ out'.thrown
            /\ out'.p = null
            /\ m_stack' = m_stack
            /\ held' = held
       ELSE /\ ~out'.thrown
            /\ out'.p = Head(m_stack)
            /\ out'.p \notin held
            /\ m_stack' = Tail(m_stack)
            /\ held' = held \cup {out'.p}]_vars

C10_Witness ==
  /\ out.op = "allocate"
  /\ out.thrown
  /\ Cardinality(held) = 2
  /\ m_stack = <<>>

\* C11: in a tree of n >= 1 keys, begin() is the node of the minimum key,
\* exactly n increments from begin() reach end() and no fewer do, and walking
\* from rbegin() to rend() yields the n keys in strictly decreasing order.
C11_IteratorsSpanTree ==
  \A t \in Trees :
    (Live(t) /\ ~truncated[t] /\ NodesOf(node, t) # {}) =>
      LET n == Cardinality(NodesOf(node, t))
          ks == {node[p].key : p \in NodesOf(node, t)}
          w == Walk(node, t)
          r == RevWalk(node, t)
      IN /\ begin(node, t) \in NodesOf(node, t)
         /\ \A k \in ks : node[begin(node, t)].key <= k
         /\ Len(w) = n
         /\ \A i \in 1..n : w[i] # end(t)
         /\ inorder_successor(node, w[n]) = end(t)
         /\ Len(r) = n
         /\ \A i \in 1..n : r[i] = w[n + 1 - i]
         /\ StrictlyDecreasing([i \in 1..n |-> node[r[i]].key])

C11_Witness ==
  /\ Live(1)
  /\ ~truncated[1]
  /\ Cardinality(NodesOf(node, 1)) = 3
  /\ begin(node, 1) # node[head(1)].llink
  /\ [i \in 1..3 |-> node[RevWalk(node, 1)[i]].key] = <<3, 2, 1>>

\* C12: with one tree on an arena of N slots, every cycle of inserting N
\* distinct keys and calling clear() succeeds in full, however many cycles
\* came before: an insert of a new key into a tree of fewer than N nodes
\* succeeds and takes one slot, and clear() puts all N slots back.
C12_CyclesNeverExhaust ==
  [][/\ (call'.op = "insert" /\ call'.arg \notin Range(WalkKeys(node, 1))
          /\ Cardinality(NodesOf(node, 1)) < slot_count[1]) =>
        /\ ret'.inserted = TRUE
        /\ Cardinality(NodesOf(node', 1)) = Cardinality(NodesOf(node, 1)) + 1
        /\ Len(free'[1]) = slot_count[1] - Cardinality(NodesOf(node', 1))
     /\ call'.op = "clear" =>
        /\ NodesOf(node', 1) = {}
        /\ Len(free'[1]) = slot_count[1]
        /\ Range(free'[1]) = Range(FreshChain(1, slot_count[1]))]_vars

\* the arena is full again, and its slots were handed out in another order
\* than that of the fresh chain: an earlier cycle was cleared
C12_Witness ==
  /\ call.op = "insert"
  /\ ret.inserted = TRUE
  /\ slot_count[1] = MaxKey
  /\ Cardinality(NodesOf(node, 1)) = slot_count[1]
  /\ node[head(1)].llink # FreshChain(1, slot_count[1])[1]

\* C13: two allocator handles compare equal exactly when they were built over
\* the same backing buffer (same start, same length); operator!= is the negation.
C13_EqualIffSameBuffer ==
  /\ eq.op = "==" => (eq.result <=> buf = other.buf)
  /\ eq.op = "!=" => (eq.result <=> buf # other.buf)

\* C14: clear() and the destructor of a tree of n nodes call deallocate
\* exactly n times, once for each node and never for the sentinel: the n new
\* entries of the free chain are the nodes of the tree in the order of the
\* walk that ends at the sentinel, on top of the chain as it was.
C14_ClearFreesEachOnce ==
  [][call'.op \in {"clear", "destroy"} =>
       LET t == call'.t
           a == pool[t]
           n == Cardinality(NodesOf(node, t))
           w == Walk(node, t)
       IN /\ Len(w) = n
          /\ inorder_successor(node, IF n = 0 THEN head(t) ELSE w[n]) = head(t)
          /\ Len(free'[a]) = Len(free[a]) + n
          /\ SubSeq(free'[a], n + 1, Len(free'[a])) = free[a]
          /\ SubSeq(free'[a], 1, n) = Reverse(w)
          /\ Range(SubSeq(free'[a], 1, n)) = NodesOf(node, t)
          /\ head(t) \notin Range(free'[a])]_vars

\* a destructor has put back every slot of the arena, the one of the largest
\* key last
C14_Witness ==
  /\ call.op = "destroy"
  /\ slot_count[1] = MaxKey
  /\ \A u \in Trees : pool[u] = NoPool
  /\ free[1] = Reverse(FreshChain(1, MaxKey))

\* C15: when two trees are bound to one arena, an insert, clear or destructor
\* on one leaves the nodes, keys, links, tags and inorder sequence of the
\* other as they were; the two never hold a slot in common and together
\* never hold more nodes than the arena has slots.
C15_SharedArenaIsolation ==
  [][/\ \A t, u \in Trees :
          (call'.op \in {"insert", "clear", "destroy"} /\ call'.t = t /\ u # t
             /\ pool[u] # NoPool /\ pool[u] = pool[t]) =>
            /\ \A p \in NodesOf(node, u) \cup {head(u)} : node'[p] = node[p]
            /\ NodesOf(node', u) = NodesOf(node, u)
            /\ Walk(node', u) = Walk(node, u)
            /\ WalkKeys(node', u) = WalkKeys(node, u)
            /\ pool'[u] = pool[u]
     /\ \A t, u \in Trees :
          (u # t /\ pool'[u] # NoPool /\ pool'[u] = pool'[t]) =>
            /\ NodesOf(node', t) \cap NodesOf(node', u) = {}
            /\ Cardinality(NodesOf(node', t)) + Cardinality(NodesOf(node', u))
                 <= slot_count[pool'[t]]]_vars

\* an insert took the last slot of an arena whose other slot the other tree holds
C15_Witness ==
  /\ call.op = "insert"
  /\ ret.inserted = TRUE
  /\ \E u \in Trees :
       /\ u # call.t
       /\ pool[u] = pool[call.t]
       /\ NodesOf(node, u) # {}
       /\ free[pool[u]] = <<>>

\* C16: a copy returns every node the destination held to the arena the
\* destination was bound to before the copy and only then binds it to the
\* source's arena: the former arena gets all of them back and loses none, and
\* every node the destination holds afterwards is a slot of the source's
\* arena, taken from its free chain.
C16_CopyClearsThenRebinds ==
  [][IsCopy(call') =>
       LET s == call'.arg
           d == call'.t
           old == pool[d]
           a == pool[s]
           had == NodesOf(node, d)
           got == NodesOf(node', d)
       IN /\ pool'[d] = a
          /\ \A p \in got : ArenaOf(p) = a
          /\ (old # NoPool /\ old # a) =>
               /\ free'[old] = Reverse(Walk(node, d)) \o free[old]
               /\ got \subseteq Range(free[a])
               /\ Range(free'[a]) = Range(free[a]) \ got
          /\ (old = NoPool) =>
               /\ got \subseteq Range(free[a])
               /\ \A b \in Arenas : b # a => free'[b] = free[b]
          /\ (old = a) =>
               /\ got \subseteq Range(free[a]) \cup had
               /\ Range(free'[a]) = (Range(free[a]) \cup had) \ got
               /\ Len(free'[a]) = Len(free[a]) + Cardinality(had) - Cardinality(got)]_vars

\* an assignment moved a tree that held a node of arena 2 over to arena 1,
\* where it holds a node again, and arena 2 has its slot back
C16_Witness ==
  /\ call.op = "assign"
  /\ call.old = 2
  /\ call.freed = 1
  /\ pool[call.t] = 1
  /\ NodesOf(node, call.t) # {}
  /\ free[2] = FreshChain(2, Cap2)
  /\ slot_count[2] = Cap2

\* C17: in every state reached by construction, insert, copy, clear and
\* destruction, the sentinel's left link is a Thread to the sentinel itself
\* exactly when the tree holds no node; otherwise it is a Child link to the
\* root, and the Child links from the root reach every node the tree holds
\* (the slots taken from its arena).
C17_SentinelLeftLink ==
  \A t \in Trees :
    Live(t) =>
      LET h == node[head(t)]
          users == {u \in Trees : pool[u] = pool[t]}
      IN /\ has_null_llink(h.tag) <=> h.llink = head(t)
         /\ ~has_null_llink(h.tag) => (h.llink \in Slots /\ node[h.llink] # Blank)
         /\ Alone(t) =>
              IF Taken(pool[t]) = {}
              THEN has_null_llink(h.tag) /\ h.llink = head(t)
              ELSE ~has_null_llink(h.tag) /\ Sub(node, h.llink) = Taken(pool[t])
         /\ UNION {NodesOf(node, u) : u \in users} = Taken(pool[t])

\* a tree alone on its arena holds both slots, the second below the root
C17_Witness ==
  /\ call.op = "insert"
  /\ Alone(call.t)
  /\ Cardinality(Taken(pool[call.t])) = 2
  /\ Sub(node, node[head(call.t)].llink) = Taken(pool[call.t])
  /\ node[head(call.t)].llink # head(call.t)

\* C18: while clear() runs (called directly, by the destructor or by a copy
\* on its destination), no tag or link of a node is read once the node has
\* been deallocated: each successor is computed before the node is freed and
\* its computation passes only through nodes not yet freed.
C18_NoReadAfterFree ==
  call.op \in {"clear", "destroy", "copy_construct", "assign"} => ~call.stale

\* an assignment has cleared a destination of two nodes
C18_Witness ==
  /\ call.op = "assign"
  /\ call.freed = 2
  /\ ~call.stale
  /\ Len(free[call.old]) >= 1

\* C19: copying or assigning a tree to itself does nothing: memory (nodes,
\* keys, links, tags), the free chains and the tree's arena are as before.
C19_SelfCopyIsNoOp ==
  [][(call'.op \in {"copy_construct", "assign"} /\ call'.t = call'.arg) =>
       /\ node' = node
       /\ free' = free
       /\ pool' = pool
       /\ Walk(node', call'.t) = Walk(node, call'.t)
       /\ ~call'.full]_vars

C19_Witness ==
  /\ call.op = "assign"
  /\ call.t = call.arg
  /\ Cardinality(NodesOf(node, call.t)) = 2
  /\ free[pool[call.t]] = <<>>

====
